---- MODULE Spec2Model ----
(***************************************************************************)
(* LanCaster: the virtual tarball writer (virtual_tarball_writer.go) and   *)
(* the distribution server (server.go), as state machines.                 *)
(*                                                                         *)
(* Three specifications share the module's variables:                     *)
(*   Spec        a constructed VirtualTarballWriter under arbitrary        *)
(*               WriteAt and Close calls;                                  *)
(*   SpecStream  a constructed writer fed the virtual byte stream from     *)
(*               offset 0 in successive contiguous chunks;                 *)
(*   SpecServer  Server.Run: start-up, then the send/recv loop.            *)
(* Each specification leaves the other parts' variables untouched.         *)
(***************************************************************************)
EXTENDS Integers, Sequences, FiniteSets, TLC

VARIABLES
    \* ---- VirtualTarballWriter ----
    input,         \* the []*TarballFile handed to NewVirtualTarballWriter
    files,         \* t.files
    size,          \* t.size
    openFileInfo,  \* t.openFileInfo: index into files, 0 = nil
    openFile,      \* t.openFile: path of the open handle, NilFile = nil
    disk,          \* the file system under the working directory
    handles,       \* number of os.File handles opened and not closed
    call,          \* the last WriteAt/Close call and what it returned
    \* ---- the byte stream of SpecStream ----
    content,       \* path -> the bytes the file is meant to hold
    pos,           \* virtual offset of the next chunk
    calls,         \* number of WriteAt calls issued so far
    chunks,        \* the chunks of the stream a receiver is to write
    applied,       \* the chunks written at least once
    \* ---- Server ----
    tb,                     \* s.tb: the reader's files and size
    datagramSize,           \* s.m.datagramSize
    metadataHeader,         \* s.metadataHeader
    metadataSections,       \* s.metadataSections
    lastClientDataRequest,  \* s.lastClientDataRequest
    nextRegion,             \* s.nextRegion
    regionSize,             \* s.regionSize
    regionCount,            \* s.regionCount
    now,           \* time.Now(), in units of 100 ms
    tickReady,     \* a tick waits on the ticker's channel
    ctrlIn,        \* the message waiting on s.m.ControlToServer
    out,           \* what the last step of the loop received and sent
    pc,            \* where Run is: "start", "loop", "returned", "panicked"
    runErr,        \* the error Run returned
    closed         \* number of calls of s.m.Close()

wvars == <<input, files, size, openFileInfo, openFile, disk, handles, call>>
stvars == <<content, pos, calls, chunks, applied>>
svars == <<tb, datagramSize, metadataHeader, metadataSections,
           lastClientDataRequest, nextRegion, regionSize, regionCount,
           now, tickReady, ctrlIn, out, pc, runErr, closed>>

-----------------------------------------------------------------------------
(* Bounds of the model.                                                    *)

MaxFiles == 2
MaxSize == 2
MaxBuf == 3
MaxHandles == 2

\* Paths are relative, free of "." and ".." segments (lines 27-35 accept
\* them); a path is modelled by its rank in the order of the strings.
Paths == 1..MaxFiles

\* os.FileMode: the permission bits are left out, ModeSymlink is kept.
ModeSymlink == "ModeSymlink"
Modes == {{}, {ModeSymlink}}

\* Byte values the buffers are drawn from.
Bytes == {0, 1}

Min(a, b) == IF a < b THEN a ELSE b

SeqsUpTo(S, n) == UNION {[1..k -> S] : k \in 0..n}

-----------------------------------------------------------------------------
(* TarballFile and NewVirtualTarballWriter.                                *)

TarballFile == [Path : Paths, Size : 0..MaxSize, Mode : Modes]

InputLists == SeqsUpTo(TarballFile, MaxFiles)

\* tarballFileList.Less: by path.
Less(a, b) == a.Path < b.Path

\* sort.Sort(filesInternal): insertion of fs[n] into the sorted prefix.
RECURSIVE SortFiles(_)
SortFiles(fs) ==
    IF Len(fs) <= 1 THEN fs
    ELSE LET n == Len(fs)
             pre == SortFiles(SubSeq(fs, 1, n - 1))
             x == fs[n]
             k == Cardinality({i \in 1..(n - 1) : ~Less(x, pre[i])})
         IN SubSeq(pre, 1, k) \o <<x>> \o SubSeq(pre, k + 1, n - 1)

\* The loop without the terminating NUL: each file takes Size bytes.
RECURSIVE AssignOffsetsNoTerminator(_, _, _, _)
AssignOffsetsNoTerminator(fs, i, sz, acc) ==
    IF i > Len(fs) THEN [err |-> "nil", files |-> acc, size |-> sz]
    ELSE IF \E j \in 1..Len(acc) : acc[j].Path = fs[i].Path
         THEN [err |-> "ErrDuplicatePaths", files |-> <<>>, size |-> 0]
         ELSE AssignOffsetsNoTerminator(fs, i + 1, sz + fs[i].Size,
                  Append(acc, [Path |-> fs[i].Path, Size |-> fs[i].Size,
                               Mode |-> fs[i].Mode, offset |-> sz]))

\* The loop of lines 25-48: offsets are handed out in the order of the
\* argument, each file taking Size + 1 bytes of the virtual space.
RECURSIVE AssignOffsets(_, _, _, _)
AssignOffsets(fs, i, sz, acc) ==
    IF i > Len(fs) THEN [err |-> "nil", files |-> acc, size |-> sz]
    ELSE IF \E j \in 1..Len(acc) : acc[j].Path = fs[i].Path
         THEN [err |-> "ErrDuplicatePaths", files |-> <<>>, size |-> 0]
         ELSE AssignOffsets(fs, i + 1, sz + fs[i].Size + 1,
                  Append(acc, [Path |-> fs[i].Path, Size |-> fs[i].Size,
                               Mode |-> fs[i].Mode, offset |-> sz]))

NewVirtualTarballWriter(fs) ==
    LET r == AssignOffsets(fs, 1, 0, <<>>)
    IN IF r.err # "nil" THEN r
       ELSE [err |-> "nil", files |-> SortFiles(r.files), size |-> r.size]

-----------------------------------------------------------------------------
(* The file system.  disk[p] is what lies at path p: nothing, a regular    *)
(* file with its bytes, or a symbolic link.                                *)

NoEntry == [kind |-> "none", data |-> <<>>]
LinkEntry == [kind |-> "link", data |-> <<>>]
FileEntry(d) == [kind |-> "file", data |-> d]

NilFile == 0
NilBuf == [isNil |-> TRUE, data |-> <<>>]
Buf(d) == [isNil |-> FALSE, data |-> d]

\* What the environment makes of a call: no failure, or the named file
\* system operation failing in that call.
Faults == {"none", "open", "write", "chdir"}
\* The failures that leave a handle behind: of f.Chmod in closeFile and of
\* f.Truncate after os.OpenFile.
LeakFaults == {"chmod", "truncate"}
FsErrors == {"ErrOpen", "ErrWrite", "ErrChdir", "ErrChmod", "ErrTruncate"}

IsSymlink(tf) == ModeSymlink \in tf.Mode

\* f.Truncate(n): cut, or fill up with zero bytes.
Truncate(d, n) == [i \in 1..n |-> IF i <= Len(d) THEN d[i] ELSE 0]

\* A write that ignores its offset and starts at the head of the file.
FileWriteAtStart(d, p, off) ==
    LET n == IF Len(p) > Len(d) THEN Len(p) ELSE Len(d)
    IN [i \in 1..n |-> IF i <= Len(p) THEN p[i]
                       ELSE IF i <= Len(d) THEN d[i] ELSE 0]

\* os.File.WriteAt(p, off) on the bytes d of the file behind the handle.
FileWriteAt(d, p, off) ==
    LET n == IF off + Len(p) > Len(d) THEN off + Len(p) ELSE Len(d)
    IN [i \in 1..n |-> IF i > off /\ i <= off + Len(p) THEN p[i - off]
                       ELSE IF i <= Len(d) THEN d[i] ELSE 0]

\* closeFile: Chmod to the declared mode, Close, forget the handle.  When
\* Chmod fails, the handle stays open and stays the writer's.
closeFile(st, fault) ==
    IF st.info = 0 THEN [err |-> "nil", st |-> [st EXCEPT !.file = NilFile]]
    ELSE IF st.file = NilFile THEN [err |-> "nil", st |-> [st EXCEPT !.info = 0]]
    ELSE IF fault = "chmod" THEN [err |-> "ErrChmod", st |-> st]
    ELSE [err |-> "nil",
          st |-> [st EXCEPT !.file = NilFile, !.info = 0, !.handles = @ - 1]]

\* makeSymlink: returns nil when nothing lies at the path (the IsNotExist
\* branch of lines 91-96); otherwise changes into filepath.Base(tf.Path),
\* which the environment lets succeed or fail, and links from there.
makeSymlink(tf, i, st, fault) ==
    IF st.disk[tf.Path].kind = "none" THEN [err |-> "nil", st |-> st]
    ELSE IF fault = "chdir"
         THEN [err |-> "ErrChdir", st |-> st]
         ELSE [err |-> "nil", st |-> st]

\* Lines 146-190: make files[i] the open file.  The result of closeFile
\* is dropped (line 151); os.OpenFile creates the file and hands out a
\* handle, which is the writer's only after Truncate (lines 182-188).
OpenTarget(tf, i, st, fault) ==
    IF st.info = i THEN [err |-> "nil", st |-> st]
    ELSE LET c == IF st.info # 0 THEN closeFile(st, fault).st ELSE st
         IN IF fault = "open"
            THEN [err |-> "ErrOpen", st |-> c]
            ELSE LET old == IF c.disk[tf.Path].kind = "file"
                            THEN c.disk[tf.Path].data ELSE <<>>
                 IN IF fault = "truncate"
                    THEN [err |-> "ErrTruncate",
                          st |-> [c EXCEPT !.disk[tf.Path] = FileEntry(old),
                                           !.handles = @ + 1]]
                    ELSE [err |-> "nil",
                          st |-> [c EXCEPT
                              !.disk[tf.Path] = FileEntry(Truncate(old, tf.Size)),
                              !.file = tf.Path,
                              !.info = i,
                              !.handles = @ + 1]]

\* Lines 192-210: the bytes of the remainder that fall into files[i] go
\* through the open handle, whichever file it is a handle of.
WriteContent(tf, i, st, fault) ==
    LET localOffset == st.offset - tf.offset
        p == IF localOffset + Len(st.remainder) > tf.Size
             THEN SubSeq(st.remainder, 1, tf.Size - localOffset)
             ELSE st.remainder
    IN IF ~(localOffset < tf.Size) \/ Len(p) = 0 THEN [err |-> "nil", st |-> st]
       ELSE IF st.file = NilFile THEN [err |-> "ErrInvalid", st |-> st]
       ELSE IF fault = "write"
            THEN [err |-> "ErrWrite", st |-> st]
       ELSE [err |-> "nil",
             st |-> [st EXCEPT
                 !.disk[st.file] =
                     FileEntry(FileWriteAt(st.disk[st.file].data, p, localOffset)),
                 !.total = @ + Len(p),
                 !.offset = @ + Len(p),
                 !.remainder = SubSeq(@, Len(p) + 1, Len(@))]]

\* Lines 212-220: the terminating NUL of files[i].
Padding(tf, st) ==
    IF st.offset = tf.offset + tf.Size /\ Len(st.remainder) > 0
    THEN IF st.remainder[1] # 0
         THEN [err |-> "ErrBadPaddingByte", st |-> st]
         ELSE [err |-> "nil",
               st |-> [st EXCEPT !.remainder = Tail(@),
                                 !.offset = @ + 1,
                                 !.total = @ + 1]]
    ELSE [err |-> "nil", st |-> st]

Return(n, e, st) ==
    [n |-> n, err |-> e, info |-> st.info, file |-> st.file, disk |-> st.disk,
     handles |-> st.handles]

\* The loop of lines 135-226 from files[i] on.
RECURSIVE WriteLoop(_, _, _, _)
WriteLoop(fs, i, st, fault) ==
    IF i > Len(fs) THEN Return(st.total, "nil", st)
    ELSE LET tf == fs[i] IN
      IF st.offset < tf.offset \/ st.offset >= tf.offset + tf.Size + 1
      THEN WriteLoop(fs, i + 1, st, fault)
      ELSE LET o == IF IsSymlink(tf) THEN makeSymlink(tf, i, st, fault)
                    ELSE IF tf.Size > 0 THEN OpenTarget(tf, i, st, fault)
                    ELSE [err |-> "nil", st |-> st]
           IN IF o.err # "nil" THEN Return(0, o.err, o.st)
              ELSE LET w == WriteContent(tf, i, o.st, fault)
                   IN IF w.err # "nil" THEN Return(0, w.err, w.st)
                      ELSE LET q == Padding(tf, w.st)
                           IN IF q.err # "nil" THEN Return(0, q.err, q.st)
                              ELSE IF Len(q.st.remainder) = 0
                                   THEN Return(q.st.total, "nil", q.st)
                                   ELSE WriteLoop(fs, i + 1, q.st, fault)

\* WriteAt with the upper range check off by one (offset > t.size).
WriteAtLateRangeCheck(w, buf, offset, fault) ==
    LET st == [offset |-> offset, remainder |-> buf.data, total |-> 0,
               info |-> w.info, file |-> w.file, disk |-> w.disk,
               handles |-> w.handles]
    IN IF buf.isNil THEN Return(0, "ErrNilBuffer", st)
       ELSE IF offset < 0 \/ offset > w.size THEN Return(0, "ErrOutOfRange", st)
       ELSE WriteLoop(w.files, 1, st, fault)

\* VirtualTarballWriter.WriteAt(buf, offset) on the writer w, where
\* w = [files, size, info, file, disk, handles].
WriteAt(w, buf, offset, fault) ==
    LET st == [offset |-> offset, remainder |-> buf.data, total |-> 0,
               info |-> w.info, file |-> w.file, disk |-> w.disk,
               handles |-> w.handles]
    IN IF buf.isNil THEN Return(0, "ErrNilBuffer", st)
       ELSE IF offset < 0 \/ offset >= w.size THEN Return(0, "ErrOutOfRange", st)
       ELSE WriteLoop(w.files, 1, st, fault)

-----------------------------------------------------------------------------
(* The writer as a state machine.                                          *)

\* TestWriteAt_SpanningFiles: hello.txt and world.txt, 7 bytes each, and
\* the buffer "Hello, world!\n".
TestSpanningFiles ==
    << [Path |-> 1, Size |-> 7, Mode |-> {}],
       [Path |-> 2, Size |-> 7, Mode |-> {}] >>
HelloWorld == <<72, 101, 108, 108, 111, 44, 32, 119, 111, 114, 108, 100, 33, 10>>

\* TestWriteAt_OneFile: jim1.txt, 3 bytes, and the buffer "hi\n".
TestOneFile == << [Path |-> 1, Size |-> 3, Mode |-> {}] >>
HiNewline == <<104, 105, 10>>

TestInputs == {TestSpanningFiles, TestOneFile}

Writer == [files |-> files, size |-> size, info |-> openFileInfo,
           file |-> openFile, disk |-> disk, handles |-> handles]

NoCall == [op |-> "none", buf |-> NilBuf, offset |-> 0, n |-> 0, err |-> "nil"]

\* The buffers a caller passes: every short byte string and no buffer at
\* all; to the files of the test, the test's buffer.
Buffers ==
    IF input = TestSpanningFiles THEN {Buf(HelloWorld)}
    ELSE IF input = TestOneFile THEN {Buf(HiNewline)}
    ELSE {NilBuf} \cup {Buf(d) : d \in SeqsUpTo(Bytes, MaxBuf)}

\* The offsets a caller passes: all of the virtual space and one step
\* beyond either end; to the files of the test, the test's offset.
Offsets ==
    IF input \in TestInputs THEN {0} ELSE (-1)..(size + 1)

SymlinkPaths(fs) == {fs[i].Path : i \in {j \in 1..Len(fs) : IsSymlink(fs[j])}}

\* A writer fresh from NewVirtualTarballWriter, in a directory where some
\* of the links may exist already.
InitWriter ==
    /\ input \in InputLists \cup TestInputs
    /\ NewVirtualTarballWriter(input).err = "nil"
    /\ files = NewVirtualTarballWriter(input).files
    /\ size = NewVirtualTarballWriter(input).size
    /\ openFileInfo = 0
    /\ openFile = NilFile
    /\ \E pre \in SUBSET SymlinkPaths(input) :
           disk = [p \in Paths |-> IF p \in pre THEN LinkEntry ELSE NoEntry]
    /\ handles = 0
    /\ call = NoCall

\* No server runs beside the writer.
NoServer ==
    /\ tb = [files |-> <<>>, size |-> 0]
    /\ datagramSize = 0
    /\ metadataHeader = <<>>
    /\ metadataSections = <<>>
    /\ lastClientDataRequest = 0
    /\ nextRegion = 0
    /\ regionSize = 0
    /\ regionCount = 0
    /\ now = 0
    /\ tickReady = FALSE
    /\ ctrlIn = <<>>
    /\ out = <<>>
    /\ pc = "none"
    /\ runErr = "nil"
    /\ closed = 0

Init ==
    /\ InitWriter
    /\ content = <<>>
    /\ pos = 0
    /\ calls = 0
    /\ chunks = {}
    /\ applied = {}
    /\ NoServer

DoWriteAt(buf, offset, fault) ==
    LET r == WriteAt(Writer, buf, offset, fault)
    IN /\ r.handles <= MaxHandles
       /\ openFileInfo' = r.info
       /\ openFile' = r.file
       /\ disk' = r.disk
       /\ handles' = r.handles
       /\ call' = [op |-> "WriteAt", buf |-> buf, offset |-> offset,
                   n |-> r.n, err |-> r.err]
       /\ UNCHANGED <<input, files, size>>

WriteAtCall ==
    \E buf \in Buffers, offset \in Offsets, fault \in Faults :
        /\ call = NoCall
        /\ DoWriteAt(buf, offset, fault)
        /\ UNCHANGED stvars
        /\ UNCHANGED svars

\* VirtualTarballWriter.Close.
DoClose(fault) ==
    LET c == closeFile([info |-> openFileInfo, file |-> openFile,
                        handles |-> handles], fault)
    IN /\ openFileInfo' = c.st.info
       /\ openFile' = c.st.file
       /\ handles' = c.st.handles
       /\ call' = [NoCall EXCEPT !.op = "Close", !.err = c.err]
       /\ UNCHANGED <<input, files, size, disk>>

Close ==
    /\ call = NoCall
    /\ DoClose("none")
    /\ UNCHANGED stvars
    /\ UNCHANGED svars

\* The caller is done with what the last call returned.
CallerContinues ==
    /\ call # NoCall
    /\ call' = NoCall
    /\ UNCHANGED <<input, files, size, openFileInfo, openFile, disk, handles>>
    /\ UNCHANGED stvars
    /\ UNCHANGED svars

Next == WriteAtCall \/ Close \/ CallerContinues

vars == <<input, files, size, openFileInfo, openFile, disk, handles, call,
          content, pos, calls, chunks, applied,
          tb, datagramSize, metadataHeader, metadataSections,
          lastClientDataRequest, nextRegion, regionSize, regionCount,
          now, tickReady, ctrlIn, out, pc, runErr, closed>>

Spec == Init /\ [][Next]_vars

-----------------------------------------------------------------------------
(* The writer where f.Chmod and f.Truncate may fail: single bytes written  *)
(* anywhere in the virtual space, and Close.                               *)

WriteAtFaulty ==
    \E b \in Bytes, offset \in 0..(size - 1), fault \in {"none"} \cup LeakFaults :
        /\ call = NoCall
        /\ DoWriteAt(Buf(<<b>>), offset, fault)
        /\ UNCHANGED stvars
        /\ UNCHANGED svars

CloseFaulty ==
    \E fault \in {"none", "chmod"} :
        /\ call = NoCall
        /\ DoClose(fault)
        /\ UNCHANGED stvars
        /\ UNCHANGED svars

NextFaults == WriteAtFaulty \/ CloseFaulty \/ CallerContinues

InitFaults ==
    /\ Init
    /\ input \in InputLists

SpecFaults == InitFaults /\ [][NextFaults]_vars

-----------------------------------------------------------------------------
(* The byte stream content_1 || 0 || content_2 || 0 || ... written from    *)
(* virtual offset 0 in successive contiguous chunks.                       *)

\* The byte of the stream at virtual offset o, by the offsets the
\* constructor gave the files.
StreamByte(o) ==
    LET i == CHOOSE j \in 1..Len(files) :
                 files[j].offset <= o /\ o <= files[j].offset + files[j].Size
        tf == files[i]
    IN IF o = tf.offset + tf.Size THEN 0 ELSE content[tf.Path][o - tf.offset + 1]

Stream == [k \in 1..size |-> StreamByte(k - 1)]

Contents(fs) ==
    {c \in [Paths -> SeqsUpTo(Bytes, MaxSize)] :
        \A p \in Paths :
            Len(c[p]) = IF \E i \in 1..Len(fs) : fs[i].Path = p
                        THEN (CHOOSE s \in {fs[i].Size : i \in {j \in 1..Len(fs) : fs[j].Path = p}} : TRUE)
                        ELSE 0}

InitStream ==
    /\ InitWriter
    /\ input \in InputLists
    /\ content \in Contents(input)
    /\ pos = 0
    /\ calls = 0
    /\ chunks = {}
    /\ applied = {}
    /\ NoServer

StreamWrite ==
    \E len \in 1..(size - pos) :
        /\ DoWriteAt(Buf(SubSeq(Stream, pos + 1, pos + len)), pos, "none")
        /\ pos' = pos + len
        /\ calls' = calls + 1
        /\ UNCHANGED <<content, chunks, applied>>
        /\ UNCHANGED svars

NextStream == StreamWrite

SpecStream == InitStream /\ [][NextStream]_vars

-----------------------------------------------------------------------------
(* The byte stream cut into chunks, which a receiver writes in the order   *)
(* the datagrams arrive in: any order, any chunk any number of times.      *)

MaxCuts == 2

\* The chunks between the cuts: each starts at 0 or at a cut and ends at
\* the next cut or at sz.
ChunksOf(cuts, sz) ==
    LET points == {0} \cup cuts \cup {sz}
    IN {[offset |-> a,
         len |-> (CHOOSE b \in points :
                      b > a /\ \A c \in points : c > a => b <= c) - a] :
        a \in points \ {sz}}

ChunkCovers(sz) ==
    {ChunksOf(cuts, sz) :
        cuts \in {c \in SUBSET (1..(sz - 1)) : Cardinality(c) <= MaxCuts}}

ChunkBuf(c) == Buf(SubSeq(Stream, c.offset + 1, c.offset + c.len))

InitChunks ==
    /\ InitWriter
    /\ input \in InputLists
    /\ content \in Contents(input)
    /\ pos = 0
    /\ calls = 0
    /\ chunks \in ChunkCovers(size)
    /\ applied = {}
    /\ NoServer

ChunkWrite ==
    \E c \in chunks :
        /\ DoWriteAt(ChunkBuf(c), c.offset, "none")
        /\ applied' = applied \cup {c}
        /\ UNCHANGED <<content, pos, calls, chunks>>
        /\ UNCHANGED svars

NextChunks == ChunkWrite

SpecChunks == InitChunks /\ [][NextChunks]_vars

-----------------------------------------------------------------------------
(* The server: wire encoding and the metadata of Server.Run.               *)

\* Sizes of the protocol's message parts.
protocolControlPrefixSize == 33
protocolDataMsgSize == 40
metadataSectionMsgSize == 2
metadataHeaderMsgSize == 2
HashLen == 32

\* byteOrder (little endian): v in n bytes.
RECURSIVE LE(_, _)
LE(v, n) == IF n = 0 THEN <<>> ELSE <<v % 256>> \o LE(v \div 256, n - 1)

\* uint16(v)
Uint16(v) == v % 65536

\* The path of a file as a string: "f1", "f2", ...
PathBytes(p) == <<102, 48 + p>>

\* f.Mode as a uint32: the ModeSymlink bit, permission bits left out.
ModeBits(m) == IF ModeSymlink \in m THEN 134217728 ELSE 0

\* f.Hash: 32 bytes that depend on the file.
HashOf(p) == [i \in 1..HashLen |-> (16 * p + i) % 256]

\* The byte a file holds at index j (from 1): never zero.
FileByte(p, j) == 1 + ((7 * p + j) % 255)

\* The files of a VirtualTarballReader: sorted, offsets the running total
\* of Size + 1.
RECURSIVE ReaderOffsets(_, _, _)
ReaderOffsets(fs, i, sz) ==
    IF i > Len(fs) THEN <<>>
    ELSE <<[Path |-> fs[i].Path, Size |-> fs[i].Size, Mode |-> fs[i].Mode,
            offset |-> sz]>> \o ReaderOffsets(fs, i + 1, sz + fs[i].Size + 1)

RECURSIVE SumSizes(_, _)
SumSizes(fs, i) ==
    IF i > Len(fs) THEN 0 ELSE fs[i].Size + 1 + SumSizes(fs, i + 1)

NewVirtualTarballReader(fs) ==
    [files |-> ReaderOffsets(SortFiles(fs), 1, 0), size |-> SumSizes(fs, 1)]

\* The byte of the reader's virtual space at offset o.
VirtualByte(t, o) ==
    LET i == CHOOSE j \in 1..Len(t.files) :
                 t.files[j].offset <= o
                 /\ o <= t.files[j].offset + t.files[j].Size
        tf == t.files[i]
    IN IF o = tf.offset + tf.Size THEN 0
       ELSE FileByte(tf.Path, o - tf.offset + 1)

\* VirtualTarballReader.ReadAt(buf, offset) with len(buf) = n: the error,
\* and the bytes read.  The environment may fail the read of the files.
ReadAt(t, n, offset, fault) ==
    IF offset < 0 \/ offset >= t.size
    THEN [err |-> "ErrOutOfRange", data |-> <<>>]
    ELSE IF fault THEN [err |-> "ErrRead", data |-> <<>>]
    ELSE [err |-> "nil",
          data |-> [k \in 1..Min(n, t.size - offset) |->
                        VirtualByte(t, offset + k - 1)]]

\* Lines 60-67 and 72: the metadata blob.
RECURSIVE FilesMetadata(_, _)
FilesMetadata(fs, i) ==
    IF i > Len(fs) THEN <<>>
    ELSE LE(Uint16(Len(PathBytes(fs[i].Path))), 2) \o PathBytes(fs[i].Path)
         \o LE(fs[i].Size, 8) \o LE(ModeBits(fs[i].Mode), 4)
         \o HashOf(fs[i].Path) \o FilesMetadata(fs, i + 1)

Metadata(t) == LE(t.size, 8) \o LE(Len(t.files), 4) \o FilesMetadata(t.files, 1)

\* Lines 74-78.
SectionSize(dgram) == dgram - (protocolControlPrefixSize + metadataSectionMsgSize)

SectionCount(md, sectionSize) ==
    LET c == Len(md) \div sectionSize
    IN IF c * sectionSize < Len(md) THEN c + 1 ELSE c

\* Lines 83-98 from section n on, o the start of the slice: the sections, or
\* the panic of md[o:e] when o lies beyond e.
RECURSIVE SliceSections(_, _, _, _, _, _)
SliceSections(md, sectionSize, sectionCount, n, o, acc) ==
    IF ~(n < sectionCount) THEN [panic |-> FALSE, sections |-> acc]
    ELSE LET e == Min(o + sectionSize, Len(md))
         IN IF o > e THEN [panic |-> TRUE, sections |-> acc]
            ELSE SliceSections(md, sectionSize, sectionCount, n + 1, o + e,
                     Append(acc, LE(Uint16(n), metadataSectionMsgSize)
                                 \o SubSeq(md, o + 1, e)))

\* Lines 72-103: the sections and the header.
MetadataSections(md, dgram) ==
    LET sectionSize == SectionSize(dgram)
        sectionCount == SectionCount(md, sectionSize)
        r == SliceSections(md, sectionSize, sectionCount, 0, 0, <<>>)
    IN [panic |-> r.panic, sections |-> r.sections,
        header |-> LE(Uint16(sectionCount), metadataHeaderMsgSize)]

\* Lines 106-111.
RegionSize(dgram) == Uint16(dgram - protocolDataMsgSize)

RegionCount(sz, rs) ==
    LET c == sz \div rs
    IN IF rs * c < sz THEN c + 1 ELSE c

-----------------------------------------------------------------------------
(* Server.Run as a state machine.                                          *)

MaxTime == 11
MaxIndex == 3

\* The zero time.Time, and the time the model starts at.
ZeroTime == 0
\* 500 ms and the ticker's second, in units of 100 ms.
StreamWindow == 5
TickPeriod == 10

\* The tarballs served: none, one or two files of 0 or 40 bytes.
ServerFiles ==
    { <<>>,
      <<[Path |-> 1, Size |-> 40, Mode |-> {}]>>,
      <<[Path |-> 2, Size |-> 40, Mode |-> {}], [Path |-> 1, Size |-> 0, Mode |-> {}]>> }

\* The datagram capacities of the transport.
DatagramSizes == {41, 55, 70, 100}

\* s.tb.HashId() and the identifier of another transfer.
OwnHashId == "own"
HashIds == {OwnHashId, "other"}

\* What arrives on ControlToServer: a transport error, a datagram that
\* extractServerMessage rejects, or a well-formed client message.
NoMsg == [Error |-> "nil", hashId |-> "", op |-> "none", index |-> 0]
ErrorMsg == [Error |-> "ErrRecv", hashId |-> "", op |-> "none", index |-> 0]
MalformedMsg == [Error |-> "nil", hashId |-> "", op |-> "malformed", index |-> 0]
ClientMsgs ==
    {ErrorMsg, MalformedMsg}
    \cup [Error : {"nil"}, hashId : HashIds,
          op : {"RequestMetadataHeader", "RequestDataSections", "AnnounceTarball"},
          index : {0}]
    \cup [Error : {"nil"}, hashId : HashIds, op : {"RequestMetadataSection"},
          index : 0..MaxIndex]

\* extractServerMessage: the error.
extractServerMessage(ctrl) == IF ctrl.op = "malformed" THEN "ErrMessage" ELSE "nil"

controlToClientMessage(hashId, op, payload) ==
    [chan |-> "ControlToClient", hashId |-> hashId, op |-> op, region |-> 0,
     payload |-> payload]

dataMessage(hashId, region, payload) ==
    [chan |-> "Data", hashId |-> hashId, op |-> "data", region |-> region,
     payload |-> payload]

\* A send and whether the transport took it.
Sent(msg, ok) == [msg |-> msg, ok |-> ok]

Out(step, in, msgs, readErr) ==
    [step |-> step, in |-> in, msgs |-> msgs, readErr |-> readErr]

InitServer ==
    /\ \E fs \in ServerFiles : tb = NewVirtualTarballReader(fs)
    /\ datagramSize \in DatagramSizes
    /\ metadataHeader = <<>>
    /\ metadataSections = <<>>
    /\ lastClientDataRequest = ZeroTime
    /\ nextRegion = 0
    /\ regionSize = 0
    /\ regionCount = 0
    /\ now = ZeroTime + 1
    /\ tickReady = FALSE
    /\ ctrlIn = NoMsg
    /\ out = Out("none", NoMsg, <<>>, "nil")
    /\ pc = "start"
    /\ runErr = "nil"
    /\ closed = 0
    \* no writer
    /\ input = <<>>
    /\ files = <<>>
    /\ size = 0
    /\ openFileInfo = 0
    /\ openFile = NilFile
    /\ disk = [p \in Paths |-> NoEntry]
    /\ handles = 0
    /\ call = NoCall
    /\ content = <<>>
    /\ pos = 0
    /\ calls = 0
    /\ chunks = {}
    /\ applied = {}

\* What s.m.Close() returns.
CloseErrors == {"nil", "ErrClose"}

\* Run with a named result: the deferred function's assignment of the
\* error of Close replaces the error of the return statement.
RunReturnsNamedResult(err) ==
    \E closeErr \in CloseErrors :
        /\ pc' = "returned"
        /\ runErr' = closeErr
        /\ closed' = closed + 1

\* Run returns err (lines 129, 137, 156, 162): the return statement fixes
\* the result, then the deferred function of lines 33-35 closes the
\* transport and assigns the error of Close to the local variable err,
\* which is no longer read.
RunReturns(err) ==
    \E closeErr \in CloseErrors :
        LET result == err
            local == closeErr
        IN /\ pc' = "returned"
           /\ runErr' = result
           /\ closed' = closed + 1

\* Lines 37-122: the metadata, the regions, the channels.
RunStart ==
    LET m == MetadataSections(Metadata(tb), datagramSize)
        rs == RegionSize(datagramSize)
    IN /\ pc = "start"
       /\ metadataSections' = m.sections
       /\ out' = Out("start", NoMsg, <<>>, "nil")
       /\ IF m.panic \/ rs = 0
          THEN /\ pc' = "panicked"
               /\ closed' = closed + 1
               /\ UNCHANGED <<metadataHeader, regionSize, regionCount>>
          ELSE /\ pc' = "loop"
               /\ metadataHeader' = m.header
               /\ regionSize' = rs
               /\ regionCount' = RegionCount(tb.size, rs)
               /\ UNCHANGED closed
       /\ nextRegion' = 0
       /\ UNCHANGED <<tb, datagramSize, lastClientDataRequest, now, tickReady,
                      ctrlIn, runErr>>
       /\ UNCHANGED wvars
       /\ UNCHANGED stvars

\* processControl without the comparison of the transfer identifier.
processControlAnyHashId(ctrl, ok) ==
    LET quiet == [msgs |-> <<>>, last |-> lastClientDataRequest]
    IN IF extractServerMessage(ctrl) # "nil" THEN quiet
       ELSE CASE ctrl.op = "RequestMetadataHeader" ->
                   [quiet EXCEPT !.msgs = <<Sent(controlToClientMessage(
                       ctrl.hashId, "RespondMetadataHeader", metadataHeader), ok)>>]
              [] ctrl.op = "RequestMetadataSection" ->
                   IF ctrl.index >= Uint16(Len(metadataSections)) THEN quiet
                   ELSE [quiet EXCEPT !.msgs = <<Sent(controlToClientMessage(
                       ctrl.hashId, "RespondMetadataSection",
                       metadataSections[ctrl.index + 1]), ok)>>]
              [] ctrl.op = "RequestDataSections" -> [quiet EXCEPT !.last = now]
              [] OTHER -> quiet

\* processControl(ctrl): the sends it makes, each taken by the transport or
\* not, and the last-data-request time it leaves.
processControl(ctrl, ok) ==
    LET quiet == [msgs |-> <<>>, last |-> lastClientDataRequest]
    IN IF extractServerMessage(ctrl) # "nil" THEN quiet
       ELSE IF ctrl.hashId # OwnHashId THEN quiet
       ELSE CASE ctrl.op = "RequestMetadataHeader" ->
                   [quiet EXCEPT !.msgs = <<Sent(controlToClientMessage(
                       ctrl.hashId, "RespondMetadataHeader", metadataHeader), ok)>>]
              [] ctrl.op = "RequestMetadataSection" ->
                   IF ctrl.index >= Uint16(Len(metadataSections)) THEN quiet
                   ELSE [quiet EXCEPT !.msgs = <<Sent(controlToClientMessage(
                       ctrl.hashId, "RespondMetadataSection",
                       metadataSections[ctrl.index + 1]), ok)>>]
              [] ctrl.op = "RequestDataSections" -> [quiet EXCEPT !.last = now]
              [] OTHER -> quiet

\* Lines 127-132: a message from ControlToServer.
RecvControl ==
    /\ pc = "loop"
    /\ ctrlIn # NoMsg
    /\ ctrlIn' = NoMsg
    /\ IF ctrlIn.Error # "nil"
       THEN /\ RunReturns(ctrlIn.Error)
            /\ out' = Out("recv", ctrlIn, <<>>, "nil")
            /\ UNCHANGED lastClientDataRequest
       ELSE \E ok \in BOOLEAN :
            LET r == processControl(ctrlIn, ok)
            IN /\ out' = Out("recv", ctrlIn, r.msgs, "nil")
               /\ lastClientDataRequest' = r.last
               /\ UNCHANGED <<pc, runErr, closed>>
    /\ UNCHANGED <<tb, datagramSize, metadataHeader, metadataSections,
                   nextRegion, regionSize, regionCount, now, tickReady>>
    /\ UNCHANGED wvars
    /\ UNCHANGED stvars

\* Lines 133-138: the ticker's second is up.
Announce ==
    /\ pc = "loop"
    /\ tickReady
    /\ tickReady' = FALSE
    /\ \E ok \in BOOLEAN :
        /\ out' = Out("announce", NoMsg,
                      <<Sent(controlToClientMessage(OwnHashId, "AnnounceTarball", <<>>), ok)>>,
                      "nil")
        /\ IF ok THEN UNCHANGED <<pc, runErr, closed>> ELSE RunReturns("ErrSend")
    /\ UNCHANGED <<tb, datagramSize, metadataHeader, metadataSections,
                   lastClientDataRequest, nextRegion, regionSize, regionCount,
                   now, ctrlIn>>
    /\ UNCHANGED wvars
    /\ UNCHANGED stvars

\* The gate without the 500 ms window: any request ever made opens it.
StreamingForEver ==
    lastClientDataRequest # ZeroTime

\* Lines 141-146: clients asked for data less than 500 ms ago.
Streaming ==
    /\ lastClientDataRequest # ZeroTime
    /\ ~(now - lastClientDataRequest >= StreamWindow)

\* Lines 139-171: nothing to receive, no tick.
Idle ==
    /\ pc = "loop"
    /\ ctrlIn = NoMsg
    /\ ~tickReady
    /\ IF ~Streaming
       THEN /\ out' = Out("idle", NoMsg, <<>>, "nil")
            /\ UNCHANGED <<nextRegion, pc, runErr, closed>>
       ELSE \E fault \in BOOLEAN, ok \in BOOLEAN :
            LET r == ReadAt(tb, regionSize, nextRegion, fault)
            IN IF r.err = "ErrOutOfRange"
               THEN /\ out' = Out("idle", NoMsg, <<>>, r.err)
                    /\ UNCHANGED <<nextRegion, pc, runErr, closed>>
               ELSE IF r.err # "nil"
               THEN /\ out' = Out("idle", NoMsg, <<>>, r.err)
                    /\ RunReturns(r.err)
                    /\ UNCHANGED nextRegion
               ELSE /\ out' = Out("idle", NoMsg,
                                  <<Sent(dataMessage(OwnHashId, nextRegion, r.data), ok)>>,
                                  "nil")
                    /\ IF ok
                       THEN /\ nextRegion' = IF nextRegion + 1 >= regionCount
                                             THEN 0 ELSE nextRegion + 1
                            /\ UNCHANGED <<pc, runErr, closed>>
                       ELSE /\ RunReturns("ErrSend")
                            /\ UNCHANGED nextRegion
    /\ UNCHANGED <<tb, datagramSize, metadataHeader, metadataSections,
                   lastClientDataRequest, regionSize, regionCount, now,
                   tickReady, ctrlIn>>
    /\ UNCHANGED wvars
    /\ UNCHANGED stvars

\* The environment of the loop: a client (or the transport) puts a message
\* on ControlToServer, time passes.
EnvUnchanged ==
    /\ UNCHANGED <<tb, datagramSize, metadataHeader, metadataSections,
                   lastClientDataRequest, nextRegion, regionSize, regionCount,
                   pc, runErr, closed>>
    /\ UNCHANGED wvars
    /\ UNCHANGED stvars

ClientSends ==
    /\ pc = "loop"
    /\ ctrlIn = NoMsg
    /\ ctrlIn' \in ClientMsgs
    /\ out' = Out("env", NoMsg, <<>>, "nil")
    /\ UNCHANGED <<now, tickReady>>
    /\ EnvUnchanged

\* 100 ms pass; time.Tick(1 * time.Second) puts a tick on its channel
\* every second, unless one waits there already.
TimePasses ==
    /\ pc = "loop"
    /\ now < MaxTime
    /\ now' = now + 1
    /\ tickReady' = (tickReady \/ (now' - (ZeroTime + 1)) % TickPeriod = 0)
    /\ out' = Out("env", NoMsg, <<>>, "nil")
    /\ UNCHANGED ctrlIn
    /\ EnvUnchanged

NextServer ==
    RunStart \/ RecvControl \/ Announce \/ Idle \/ ClientSends \/ TimePasses

SpecServer == InitServer /\ [][NextServer]_vars

-----------------------------------------------------------------------------
(* Claims about the writer.                                                *)

Regular(tf) == ~IsSymlink(tf)

OutOfRange(c) == c.offset < 0 \/ c.offset >= size

\* The bytes of every file are what they were, cut or zero-filled to the
\* file's new length: the step wrote no byte of a buffer.
NoBufferByteWritten ==
    \A p \in Paths : disk'[p].data = Truncate(disk[p].data, Len(disk'[p].data))

\* C1: once the whole stream content_1 || 0 || content_2 || 0 || ... has
\* been written from offset 0, in one call or in any contiguous chunks,
\* every file holds exactly its content.  Stated for lists of non-empty
\* regular files, given in any order.
C1_StreamReproducesFiles ==
    (/\ pos = size
     /\ \A i \in 1..Len(files) : Regular(files[i]) /\ files[i].Size > 0)
    => \A i \in 1..Len(files) :
           disk[files[i].Path] = FileEntry(content[files[i].Path])

\* The running total of Size + 1 over the first i - 1 files of fs.
RECURSIVE RunningTotal(_, _)
RunningTotal(fs, i) ==
    IF i <= 1 THEN 0 ELSE RunningTotal(fs, i - 1) + fs[i - 1].Size + 1

Permuted(fs, f) == [i \in 1..Len(fs) |-> fs[f[i]]]

\* C2: every permutation of the input yields the same sorted descriptor
\* list with the same offsets, each offset the running total of Size + 1
\* in sorted order.
C2_CanonicalLayout ==
    /\ \A f \in Permutations(1..Len(input)) :
           NewVirtualTarballWriter(Permuted(input, f)).files = files
    /\ \A i \in 1..Len(files) : files[i].offset = RunningTotal(files, i)

\* C3: TestWriteAt_SpanningFiles: the 14 bytes "Hello, world!\n" written
\* at offset 0 over two files of 7 bytes each return n = 14 and no error.
C3_SpanningWriteReturns14 ==
    (/\ input = TestSpanningFiles
     /\ call.op = "WriteAt"
     /\ call.buf = Buf(HelloWorld)
     /\ call.offset = 0
     /\ call.err \notin FsErrors)
    => (call.err = "nil" /\ call.n = 14)

\* C4: a call that fails with ErrBadPaddingByte reports 0 bytes and has
\* written no byte of its buffer to any file.
C4_BadPaddingWritesNothing ==
    [][(call'.op = "WriteAt" /\ call'.err = "ErrBadPaddingByte")
        => (call'.n = 0 /\ NoBufferByteWritten)]_vars

\* C5, as claimed: every call with an offset outside [0, size) fails with
\* ErrOutOfRange, whatever the buffer, nil included, and touches no file.
C5_OutOfRangeWhateverBuffer ==
    [][(call'.op = "WriteAt" /\ OutOfRange(call'))
        => (/\ call'.err = "ErrOutOfRange"
            /\ UNCHANGED <<disk, openFile, openFileInfo>>)]_vars

\* C5, amended: a call with an offset outside [0, size) fails with
\* ErrOutOfRange when it passes a buffer and with ErrNilBuffer when it
\* passes none; either way it reports 0 bytes and opens, creates and
\* modifies no file.
C5_OutOfRangeOrNilBuffer ==
    [][(call'.op = "WriteAt" /\ OutOfRange(call'))
        => (/\ call'.err = IF call'.buf.isNil THEN "ErrNilBuffer"
                           ELSE "ErrOutOfRange"
            /\ call'.n = 0
            /\ UNCHANGED <<disk, openFile, openFileInfo>>)]_vars

\* C5 witness: a call past the end, with a buffer, was refused while a
\* file written earlier lies on disk and is still open.
C5_Witness ==
    /\ call.op = "WriteAt"
    /\ call.offset >= size
    /\ ~call.buf.isNil
    /\ Len(call.buf.data) > 0
    /\ call.err = "ErrOutOfRange"
    /\ openFile # NilFile
    /\ \E p \in Paths : disk[p].kind = "file" /\ \E k \in 1..Len(disk[p].data) : disk[p].data[k] # 0

\* C6: a WriteAt that succeeds in writing just the terminator byte of a
\* regular descriptor leaves that descriptor's file on disk.
C6_TerminatorCreatesFile ==
    \A i \in 1..Len(files) :
        (/\ call.op = "WriteAt"
         /\ call.err = "nil"
         /\ Regular(files[i])
         /\ call.offset = files[i].offset + files[i].Size
         /\ call.buf = Buf(<<0>>))
        => disk[files[i].Path].kind = "file"

-----------------------------------------------------------------------------
(* Claims about the server.                                                *)

\* The sections without their 2-byte index, one after the other.
RECURSIVE Reassemble(_, _)
Reassemble(secs, i) ==
    IF i > Len(secs) THEN <<>>
    ELSE SubSeq(secs[i], metadataSectionMsgSize + 1, Len(secs[i]))
         \o Reassemble(secs, i + 1)

\* C7: once Run has built them, the sections without their index prefix
\* concatenate to the metadata blob, section n carries index n and the
\* header carries the number of sections.
C7_SectionsReassemble ==
    pc = "loop" =>
        /\ Reassemble(metadataSections, 1) = Metadata(tb)
        /\ \A n \in 1..Len(metadataSections) :
               SubSeq(metadataSections[n], 1, 2) = LE(n - 1, 2)
        /\ metadataHeader = LE(Len(metadataSections), 2)

HasData(o) == \E i \in 1..Len(o.msgs) : o.msgs[i].msg.chan = "Data"

\* A RequestDataSections was recorded less than 500 ms ago.
RequestedWithin500ms ==
    /\ lastClientDataRequest # ZeroTime
    /\ now - lastClientDataRequest < 5

\* The recorded time is the time of the last RequestDataSections that
\* carried the server's transfer identifier: only the receipt of one
\* changes it, and every receipt sets it to the current time.
RecordsDataRequests ==
    /\ lastClientDataRequest' # lastClientDataRequest
           => /\ out'.step = "recv"
              /\ out'.in.op = "RequestDataSections"
              /\ out'.in.hashId = OwnHashId
    /\ (/\ out'.step = "recv"
        /\ out'.in.Error = "nil"
        /\ out'.in.op = "RequestDataSections"
        /\ out'.in.hashId = OwnHashId)
           => lastClientDataRequest' = now

\* C8, as claimed: an idle slot emits a data message if and only if a
\* RequestDataSections with the server's identifier was received less
\* than 500 ms earlier.
C8_DataIffRecentRequest ==
    [][/\ RecordsDataRequests
       /\ out'.step = "idle" => (HasData(out') <=> RequestedWithin500ms)]_vars

\* C8, amended: an idle slot emits a data message if and only if such a
\* request was received less than 500 ms earlier and the read of the
\* region at the cursor succeeds.
C8_DataIffRecentRequestAndRead ==
    [][/\ RecordsDataRequests
       /\ out'.step = "idle"
              => /\ HasData(out') <=> (RequestedWithin500ms /\ out'.readErr = "nil")
                 /\ Len(out'.msgs) <= 1
                 /\ ~RequestedWithin500ms => out'.readErr = "nil"]_vars

\* C8 witness: an idle slot has emitted data 100 ms after the request,
\* having emitted none before it.
C8_Witness ==
    /\ out.step = "idle"
    /\ HasData(out)
    /\ now - lastClientDataRequest = 1
    /\ pc = "loop"

\* A control message the server is to ignore: another transfer's, or a
\* RequestMetadataSection beyond the sections.
Ignored(m) ==
    /\ m.Error = "nil"
    /\ m.op # "malformed"
    /\ \/ m.hashId # OwnHashId
       \/ m.op = "RequestMetadataSection" /\ m.index >= Len(metadataSections)

\* C9: receiving a message of another transfer, or a request for a section
\* that does not exist, sends nothing, changes nothing of the engine's
\* state and leaves the loop running.
C9_IgnoredMessagesAreNoOps ==
    [][(pc = "loop" /\ ctrlIn # NoMsg /\ ctrlIn' = NoMsg /\ Ignored(ctrlIn))
        => (/\ out'.msgs = <<>>
            /\ pc' = "loop"
            /\ UNCHANGED <<lastClientDataRequest, nextRegion, metadataSections,
                           metadataHeader, regionSize, regionCount, tb,
                           runErr, closed>>)]_vars

\* C9 witness: a RequestDataSections of another transfer has been received
\* and no data request is on record.
C9_Witness ==
    /\ out.step = "recv"
    /\ out.in.op = "RequestDataSections"
    /\ out.in.hashId # OwnHashId
    /\ lastClientDataRequest = ZeroTime
    /\ pc = "loop"

\* C10: an error received from the control channel, and every failed send,
\* has terminated Run with that error.
C10_TransportErrorsAreFatal ==
    /\ (out.step = "recv" /\ out.in.Error # "nil")
           => (pc = "returned" /\ runErr = out.in.Error)
    /\ (\E i \in 1..Len(out.msgs) : ~out.msgs[i].ok)
           => (pc = "returned" /\ runErr = "ErrSend")

\* What made a step of the loop leave it: the error received from the
\* control channel, the failed read, or the failed send.
ExitCause(o) ==
    CASE o.step = "recv" -> o.in.Error
      [] o.readErr # "nil" -> o.readErr
      [] \E i \in 1..Len(o.msgs) : ~o.msgs[i].ok -> "ErrSend"
      [] OTHER -> "nil"

\* C11: every step that ends Run closes the transport, which was not closed
\* before, exactly once; when Run returns, it returns the error that made
\* the loop exit, never nil and never the error of closing the transport;
\* while Run goes on, and after it has ended, the transport is not closed.
C11_ClosedOnceWithCause ==
    [][/\ (pc \in {"start", "loop"} /\ pc' \notin {"start", "loop"})
           => /\ closed = 0
              /\ closed' = 1
              /\ pc' = "returned"
                     => /\ runErr' = ExitCause(out')
                        /\ runErr' \notin {"nil", "ErrClose"}
       /\ ~(pc \in {"start", "loop"} /\ pc' \notin {"start", "loop"})
           => UNCHANGED <<closed, runErr>>]_vars

\* C11 witness: a failed read of a region has ended Run, with the transport
\* closed once and the error of the read returned.
C11_Witness ==
    /\ pc = "returned"
    /\ out.step = "idle"
    /\ out.readErr = "ErrRead"
    /\ runErr = "ErrRead"
    /\ closed = 1

-----------------------------------------------------------------------------
(* Further claims about the writer.                                        *)

\* C12: the size the constructor computed is the sum of Size + 1 over the
\* files, and the constructor computes the same size for every order of
\* the same list.
C12_TotalSizeIsSumOfSizesPlusOne ==
    /\ size = RunningTotal(files, Len(files) + 1)
    /\ \A f \in Permutations(1..Len(input)) :
           /\ NewVirtualTarballWriter(Permuted(input, f)).err = "nil"
           /\ NewVirtualTarballWriter(Permuted(input, f)).size = size

\* C12 witness: two files of different sizes, the later path first, one of
\* them empty.
C12_Witness ==
    /\ Len(input) = 2
    /\ input[1].Path > input[2].Path
    /\ input[1].Size = 0
    /\ input[2].Size = 2
    /\ size = 4

\* The call c lies inside the content range of the descriptor tf.
InsideContent(c, tf) ==
    /\ c.op = "WriteAt"
    /\ ~c.buf.isNil
    /\ tf.offset <= c.offset
    /\ c.offset + Len(c.buf.data) <= tf.offset + tf.Size

\* C13: a WriteAt whose buffer lies inside the content range of one regular
\* descriptor, and which no file system operation fails, returns
\* n = len(buf) and no error; a non-empty buffer then lies in the file on
\* disk at its local offset, the file has at least its declared size and
\* its other bytes are what they were (zero where the file is new).  The
\* 3-byte buffer of TestWriteAt_OneFile returns n = 3.
C13_WriteInsideOneFile ==
    [][\A i \in 1..Len(files) :
         (/\ Regular(files[i])
          /\ InsideContent(call', files[i])
          /\ call'.err \notin FsErrors)
         => LET tf == files[i]
                b == call'.buf.data
                lo == call'.offset - tf.offset
                old == IF disk[tf.Path].kind = "file"
                       THEN disk[tf.Path].data ELSE <<>>
            IN /\ call'.err = "nil"
               /\ call'.n = Len(b)
               /\ Len(b) > 0
                      => /\ disk'[tf.Path].kind = "file"
                         /\ Len(disk'[tf.Path].data) >= tf.Size
                         /\ \A k \in 1..tf.Size :
                                disk'[tf.Path].data[k] =
                                    IF k > lo /\ k <= lo + Len(b) THEN b[k - lo]
                                    ELSE IF k <= Len(old) THEN old[k] ELSE 0
               /\ (input = TestOneFile /\ b = HiNewline) => call'.n = 3]_vars

\* C13 witness: the call of TestWriteAt_OneFile has returned 3 and the
\* file holds "hi\n".
C13_Witness ==
    /\ input = TestOneFile
    /\ call.op = "WriteAt"
    /\ call.buf = Buf(HiNewline)
    /\ call.offset = 0
    /\ call.n = 3
    /\ call.err = "nil"
    /\ disk[1] = FileEntry(HiNewline)

\* The call c starts inside the virtual range of the descriptor tf, its
\* terminator included.
Touches(c, tf) ==
    /\ c.op = "WriteAt"
    /\ ~c.buf.isNil
    /\ tf.offset <= c.offset
    /\ c.offset <= tf.offset + tf.Size

\* C16: after a WriteAt that touched the range of a symlink-mode descriptor
\* and returned no error, a link lies at the descriptor's path, whether it
\* was there before the call or not.
C16_SymlinkExistsAfterWrite ==
    \A i \in 1..Len(files) :
        (IsSymlink(files[i]) /\ Touches(call, files[i]) /\ call.err = "nil")
            => disk[files[i].Path].kind = "link"

\* C17: whatever calls were made and however they ended, at most one
\* handle is open, it is the one the writer holds, and none is open when
\* Close has returned.
C17_AtMostOneHandle ==
    /\ handles <= 1
    /\ handles = IF openFile = NilFile THEN 0 ELSE 1
    /\ call.op = "Close" => handles = 0

\* C19: a WriteAt that returns a nil error returns the length of its
\* buffer.
C19_NilErrorMeansAllWritten ==
    (call.op = "WriteAt" /\ call.err = "nil") => call.n = Len(call.buf.data)

\* The byte at index k of the file at path p after the step is the byte of
\* the call's buffer that lies at the virtual offset of a regular
\* descriptor of that path.
FromOwnRange(p, k) ==
    \E i \in 1..Len(files) :
        /\ files[i].Path = p
        /\ Regular(files[i])
        /\ k <= files[i].Size
        /\ LET j == files[i].offset + (k - 1) - call'.offset + 1
           IN /\ j \in 1..Len(call'.buf.data)
              /\ call'.buf.data[j] = disk'[p].data[k]

\* C20: a WriteAt changes a byte of a file only to the byte of its buffer
\* that lies at that byte's virtual offset in the range of the file's own
\* descriptor, and lets no file grow beyond its declared size.
C20_BytesOnlyIntoOwnFile ==
    [][call'.op = "WriteAt"
        => \A p \in Paths :
               /\ disk'[p].kind = "file"
                      => \E i \in 1..Len(files) :
                             /\ files[i].Path = p
                             /\ Len(disk'[p].data) <= files[i].Size
               /\ \A k \in 1..Len(disk'[p].data) :
                      disk'[p].data[k] #
                          (IF k <= Len(disk[p].data) THEN disk[p].data[k] ELSE 0)
                      => FromOwnRange(p, k)]_vars

\* The writer as the constructor left it, in the directory as it was: the
\* links that exist were there before, no call creates or removes one.
FreshWriter ==
    [files |-> files, size |-> size, info |-> 0, file |-> NilFile,
     disk |-> [p \in Paths |-> IF disk[p].kind = "link" THEN LinkEntry
                               ELSE NoEntry],
     handles |-> 0]

\* The writer w after the chunks from virtual offset o on have been
\* written once each, in ascending order of offset.
RECURSIVE ApplyAscending(_, _)
ApplyAscending(w, o) ==
    IF o >= size THEN w
    ELSE LET c == CHOOSE x \in chunks : x.offset = o
             r == WriteAt(w, ChunkBuf(c), c.offset, "none")
         IN ApplyAscending([w EXCEPT !.info = r.info, !.file = r.file,
                                     !.disk = r.disk, !.handles = r.handles],
                           o + c.len)

\* C15: once every chunk of a cover of [0, size) has been written at least
\* once, in whatever order and however often, the files on disk are those
\* that writing each chunk once in ascending order of offset leaves.
C15_AnyOrderAnyRepetition ==
    applied = chunks => disk = ApplyAscending(FreshWriter, 0).disk

-----------------------------------------------------------------------------
(* Further claims about the server.                                        *)

\* The virtual bytes [from, to) of the tarball.
VirtualBytes(t, from, to) ==
    [j \in 1..(to - from) |-> VirtualByte(t, from + j - 1)]

\* C14: a data message emitted with the cursor at region k carries the
\* virtual offset k * regionSize and the virtual bytes from there to the
\* end of the region or of the tarball; once sent, the cursor is at k + 1,
\* or at 0 after the last of the ceil(totalSize / regionSize) regions.
C14_SweepCoversEveryRegion ==
    [][(out'.step = "idle" /\ HasData(out'))
        => LET k == nextRegion
               m == out'.msgs[1].msg
           IN /\ regionCount * regionSize >= tb.size
              /\ (regionCount - 1) * regionSize < tb.size
              /\ k < regionCount
              /\ m.region = k * regionSize
              /\ m.payload = VirtualBytes(tb, k * regionSize,
                                  Min((k + 1) * regionSize, tb.size))
              /\ out'.msgs[1].ok
                     => nextRegion' = IF k = regionCount - 1 THEN 0 ELSE k + 1]_vars

====
